---- MODULE Spec2Model ----
(***************************************************************************)
(* A model of package sqlhelp (sqlhelp.go, helpers.go): the statement      *)
(* building and execution functions Insert, InsertPSQL, SelectRow, Update, *)
(* Delete, Exists, Select, the row iterator Select returns, and Collect2.  *)
(*                                                                         *)
(* The package's collaborators are modelled as its environment:            *)
(*   - the connection (sqlx.ExtContext) is one table keyed by "id", with   *)
(*     the faults an execute / query call can report;                      *)
(*   - the statement builder (squirrel) is a record of the parts the       *)
(*     package hands it, and ToSql, which fails as squirrel does;          *)
(*   - the tag reflector (tagops.Tags, tagops.ToMap) over a record type    *)
(*     with the columns id, name.                                          *)
(***************************************************************************)
EXTENDS Integers, Sequences, FiniteSets, TLC

\* Largest id a row or a record carries.
MaxId == 1
\* Largest number of rows a cursor delivers.
MaxRows == 3
\* Longest sequence handed to Collect2.
MaxSeq == 3

Nil == "nil"
ErrBuild == "ErrBuild"
ErrExec == "ErrExec"
ErrScan == "ErrScan"
ErrResult == "ErrResult"
ErrRows == "ErrRows"
ErrNoRows == "sql.ErrNoRows"

-----------------------------------------------------------------------------
(* The record type T and the tag reflector.                                *)

\* The declared columns of the record type, in the order tagops.Tags
\* returns them (as testStructCols lists them): the table t(id, name).
Cols == <<"id", "name">>
ColSet == {Cols[i] : i \in 1..Len(Cols)}

Zero(c) == IF c = "name" THEN "" ELSE 0
ZeroRec == [c \in ColSet |-> Zero(c)]

Ids == 0..MaxId
Names == {"", "a"}
Records == [id : Ids, name : Names]

\* A record type is the set of its columns tagged omitempty: none (as id
\* and name of TestStruct), id for a database-generated key, name, or both.
RecordTypes == SUBSET ColSet

\* tagops.Tags(&t, Tag): every declared column, whatever the field values.
Tags(T) == ColSet

\* tagops.ToMap(a, Tag, omitEmpty, fourth): column |-> value for every
\* declared column, less the omitempty-tagged columns whose field is zero
\* when omitEmpty is set.  The fourth argument (true in InsertFull, false
\* in InsertPSQLFull and Update) does not change the map of a record of
\* scalar fields: TestInsert, TestInsertPSQL and TestUpdate expect the same
\* seven columns and values, id included.
ToMap(a, T, omitEmpty, fourth) ==
    LET keep == {c \in ColSet : ~(omitEmpty /\ c \in T /\ a[c] = Zero(c))}
    IN  [c \in keep |-> a[c]]

-----------------------------------------------------------------------------
(* Where predicates and statements (squirrel).                             *)

\* sq.Eq{"id": k}, and a Sqlizer whose ToSql fails.
BadWhere == [col |-> "", val |-> 0]
EqId(k) == [col |-> "id", val |-> k]
Wheres == {EqId(k) : k \in Ids} \cup {BadWhere}
NoWhere == [col |-> "none", val |-> 0]
WhereOk(w) == w.col # ""

NoSet == [c \in {} |-> 0]
NoStmt == [kind |-> "none", set |-> NoSet, cols |-> {}, where |-> NoWhere, suffix |-> ""]

\* bld.ToSql(): the error squirrel reports for the statement, or Nil.
\* squirrel refuses a predicate that does not serialize, an UPDATE without
\* a SET clause and a SELECT without a column.  It does not refuse an
\* INSERT whose SetMap got an empty map: SetMap sets one row of no values,
\* and ToSql writes it out as INSERT INTO t VALUES ().
ToSql(stmt) ==
    IF ~WhereOk(stmt.where) THEN ErrBuild
    ELSE IF stmt.kind = "update" /\ DOMAIN stmt.set = {} THEN ErrBuild
    ELSE IF stmt.kind = "select" /\ stmt.cols = {} THEN ErrBuild
    ELSE Nil

-----------------------------------------------------------------------------
(* The connection: one table keyed by id, as the database keeps it.        *)

VARIABLES
    T,          \* the record type the calls are instantiated with
    table,      \* the table: id |-> row, for the ids that have a row
    lastRowid,  \* the connection's last-inserted id (0: none yet)
    call        \* the last call of the package: arguments, statement, result

\* What an execute / query call can meet: no fault, the call itself fails,
\* or the call succeeds and its result cannot be read (Scan, StructScan,
\* LastInsertId, RowsAffected fail).
Faults == {"none", "exec", "decode"}

\* The number a driver hands back together with an error.
DriverErrVals == {0, 1}

Max(S) == CHOOSE x \in S : \A y \in S : y <= x

\* The key the database gives a row inserted without an id.
NextRowid(tbl) == IF DOMAIN tbl = {} THEN 1 ELSE Max(DOMAIN tbl) + 1

\* The key of the row INSERT ... (set) would add.
InsertKey(tbl, set) == IF "id" \in DOMAIN set THEN set["id"] ELSE NextRowid(tbl)

\* The row a column/value map writes over `old`: bound columns take the
\* bound value, the others keep the old one.
Overwrite(old, set, key) ==
    [c \in ColSet |-> IF c = "id" THEN key
                      ELSE IF c \in DOMAIN set THEN set[c] ELSE old[c]]

Put(tbl, key, row) == [k \in DOMAIN tbl \cup {key} |-> IF k = key THEN row ELSE tbl[k]]
Remove(tbl, key) == [k \in DOMAIN tbl \ {key} |-> tbl[k]]

\* INSERT INTO t (set) ... ON CONFLICT DO NOTHING: a row whose key exists
\* is not inserted and the last-inserted id stays what it was; columns the
\* statement does not list take their default, the zero value.  err is set
\* for the statement without columns, INSERT INTO t VALUES (), which the
\* database rejects as a syntax error.
DbInsert(tbl, last, set) ==
    LET key == InsertKey(tbl, set)
    IN  IF DOMAIN set = {}
        THEN [tbl |-> tbl, last |-> last, inserted |-> FALSE, key |-> key, err |-> ErrExec]
        ELSE IF key \in DOMAIN tbl
        THEN [tbl |-> tbl, last |-> last, inserted |-> FALSE, key |-> key, err |-> Nil]
        ELSE [tbl |-> Put(tbl, key, Overwrite(ZeroRec, set, key)),
              last |-> key, inserted |-> TRUE, key |-> key, err |-> Nil]

\* UPDATE t SET set WHERE id = w.val: err is set when the new key collides
\* with another row (the primary key is unique).
DbUpdate(tbl, set, w) ==
    IF w.val \notin DOMAIN tbl
    THEN [tbl |-> tbl, affected |-> 0, err |-> Nil]
    ELSE LET key == IF "id" \in DOMAIN set THEN set["id"] ELSE w.val
         IN  IF key # w.val /\ key \in DOMAIN tbl
             THEN [tbl |-> tbl, affected |-> 0, err |-> ErrExec]
             ELSE [tbl |-> Put(Remove(tbl, w.val), key, Overwrite(tbl[w.val], set, key)),
                   affected |-> 1, err |-> Nil]

\* DELETE FROM t WHERE id = w.val.
DbDelete(tbl, w) == Remove(tbl, w.val)

\* The rows SELECT ... WHERE id = w.val returns, in order.
DbQuery(tbl, w) == IF w.val \in DOMAIN tbl THEN <<tbl[w.val]>> ELSE <<>>

\* db.QueryRowxContext(...).Scan / .StructScan over the rows a query
\* returns: the query's error, sql.ErrNoRows for no row, the decode error,
\* or the first row.
QueryRow(rows, fault) ==
    IF fault = "exec" THEN [err |-> ErrExec, row |-> ZeroRec]
    ELSE IF rows = <<>> THEN [err |-> ErrNoRows, row |-> ZeroRec]
    ELSE IF fault = "decode" THEN [err |-> ErrScan, row |-> ZeroRec]
    ELSE [err |-> Nil, row |-> rows[1]]

-----------------------------------------------------------------------------
(* The functions of the package.  Each operator gives the outcome of one   *)
(* call: the statement built, what is returned, the number of statements   *)
(* issued on the connection, and the table and last-inserted id after it.  *)

Outcome(stmt, tbl, last) ==
    [stmt |-> stmt, err |-> Nil, id |-> 0, ptr |-> FALSE, rec |-> ZeroRec,
     ok |-> FALSE, affected |-> 0, seq |-> FALSE, issued |-> 0,
     inserted |-> FALSE, tbl |-> tbl, last |-> last]

InsertFull(omitEmpty, a, fault, junk, RT, tbl, last) ==
    LET stmt == [kind |-> "insert", set |-> ToMap(a, RT, omitEmpty, TRUE), cols |-> {},
                 where |-> NoWhere, suffix |-> "ON CONFLICT DO NOTHING"]
        o == Outcome(stmt, tbl, last)
        r == DbInsert(tbl, last, stmt.set)
    IN  IF ToSql(stmt) # Nil THEN [o EXCEPT !.err = ToSql(stmt)]
        ELSE IF fault = "exec" THEN [o EXCEPT !.err = ErrExec, !.issued = 1]
        ELSE IF r.err # Nil THEN [o EXCEPT !.err = r.err, !.issued = 1]
        ELSE IF fault = "decode"
        THEN [o EXCEPT !.id = junk, !.err = ErrResult, !.issued = 1,
                       !.inserted = r.inserted, !.tbl = r.tbl, !.last = r.last]
        ELSE [o EXCEPT !.id = r.last, !.issued = 1,
                       !.inserted = r.inserted, !.tbl = r.tbl, !.last = r.last]

\* Insert binding every column, empty or not.
InsertKeepEmpty(a, fault, junk, RT, tbl, last) == InsertFull(FALSE, a, fault, junk, RT, tbl, last)

Insert(a, fault, junk, RT, tbl, last) == InsertFull(TRUE, a, fault, junk, RT, tbl, last)

\* Without(m, c): the map m less the column c.
Without(m, c) == [k \in DOMAIN m \ {c} |-> m[k]]

\* InsertPSQLFull leaving the id column out of the statement.
InsertPSQLFullNoId(omitEmpty, idCol, a, fault, RT, tbl, last) ==
    LET stmt == [kind |-> "insert", set |-> Without(ToMap(a, RT, omitEmpty, FALSE), idCol),
                 cols |-> {}, where |-> NoWhere,
                 suffix |-> "ON CONFLICT DO NOTHING RETURNING " \o idCol]
        o == Outcome(stmt, tbl, last)
        r == DbInsert(tbl, last, stmt.set)
        q == QueryRow(IF r.inserted THEN <<[ZeroRec EXCEPT !.id = r.key]>> ELSE <<>>, fault)
    IN  IF ToSql(stmt) # Nil THEN [o EXCEPT !.err = ToSql(stmt)]
        ELSE IF fault = "exec" THEN [o EXCEPT !.err = ErrExec, !.issued = 1]
        ELSE IF r.err # Nil THEN [o EXCEPT !.err = r.err, !.issued = 1]
        ELSE IF q.err # Nil
        THEN [o EXCEPT !.err = q.err, !.issued = 1,
                       !.inserted = r.inserted, !.tbl = r.tbl, !.last = r.last]
        ELSE [o EXCEPT !.id = q.row.id, !.issued = 1,
                       !.inserted = r.inserted, !.tbl = r.tbl, !.last = r.last]

InsertPSQLFull(omitEmpty, idCol, a, fault, RT, tbl, last) ==
    LET stmt == [kind |-> "insert", set |-> ToMap(a, RT, omitEmpty, FALSE), cols |-> {},
                 where |-> NoWhere, suffix |-> "ON CONFLICT DO NOTHING RETURNING " \o idCol]
        o == Outcome(stmt, tbl, last)
        r == DbInsert(tbl, last, stmt.set)
        \* the rows the statement returns: the id of the row it inserted
        q == QueryRow(IF r.inserted THEN <<[ZeroRec EXCEPT !.id = r.key]>> ELSE <<>>, fault)
    IN  IF ToSql(stmt) # Nil THEN [o EXCEPT !.err = ToSql(stmt)]
        ELSE IF fault = "exec" THEN [o EXCEPT !.err = ErrExec, !.issued = 1]
        ELSE IF r.err # Nil THEN [o EXCEPT !.err = r.err, !.issued = 1]
        ELSE IF q.err # Nil
        THEN [o EXCEPT !.err = q.err, !.issued = 1,
                       !.inserted = r.inserted, !.tbl = r.tbl, !.last = r.last]
        ELSE [o EXCEPT !.id = q.row.id, !.issued = 1,
                       !.inserted = r.inserted, !.tbl = r.tbl, !.last = r.last]

InsertPSQL(idCol, a, fault, RT, tbl, last) ==
    InsertPSQLFull(TRUE, idCol, a, fault, RT, tbl, last)

\* SelectRow answering "no rows" with an empty record and no error.
SelectRowNoRowsOk(w, fault, RT, tbl, last) ==
    LET stmt == [kind |-> "select", set |-> NoSet, cols |-> Tags(RT), where |-> w, suffix |-> ""]
        o == Outcome(stmt, tbl, last)
        q == QueryRow(DbQuery(tbl, w), fault)
    IN  IF ToSql(stmt) # Nil THEN [o EXCEPT !.err = ToSql(stmt)]
        ELSE IF q.err # Nil /\ q.err # ErrNoRows THEN [o EXCEPT !.err = q.err, !.issued = 1]
        ELSE [o EXCEPT !.ptr = TRUE, !.rec = q.row, !.issued = 1]

SelectRow(w, fault, RT, tbl, last) ==
    LET stmt == [kind |-> "select", set |-> NoSet, cols |-> Tags(RT), where |-> w, suffix |-> ""]
        o == Outcome(stmt, tbl, last)
        q == QueryRow(DbQuery(tbl, w), fault)
    IN  IF ToSql(stmt) # Nil THEN [o EXCEPT !.err = ToSql(stmt)]
        ELSE IF q.err # Nil THEN [o EXCEPT !.err = q.err, !.issued = 1]
        ELSE [o EXCEPT !.ptr = TRUE, !.rec = q.row, !.issued = 1]

\* Update binding every column, empty or not.
UpdateKeepEmpty(a, w, fault, junk, RT, tbl, last) ==
    LET stmt == [kind |-> "update", set |-> ToMap(a, RT, FALSE, FALSE), cols |-> {},
                 where |-> w, suffix |-> ""]
        o == Outcome(stmt, tbl, last)
        r == DbUpdate(tbl, stmt.set, w)
    IN  IF ToSql(stmt) # Nil THEN [o EXCEPT !.err = ToSql(stmt)]
        ELSE IF fault = "exec" THEN [o EXCEPT !.err = ErrExec, !.issued = 1]
        ELSE IF r.err # Nil THEN [o EXCEPT !.err = r.err, !.issued = 1]
        ELSE IF fault = "decode"
        THEN [o EXCEPT !.affected = junk, !.err = ErrResult, !.issued = 1, !.tbl = r.tbl]
        ELSE [o EXCEPT !.affected = r.affected, !.issued = 1, !.tbl = r.tbl]

Update(a, w, fault, junk, RT, tbl, last) ==
    LET stmt == [kind |-> "update", set |-> ToMap(a, RT, TRUE, FALSE), cols |-> {},
                 where |-> w, suffix |-> ""]
        o == Outcome(stmt, tbl, last)
        r == DbUpdate(tbl, stmt.set, w)
    IN  IF ToSql(stmt) # Nil THEN [o EXCEPT !.err = ToSql(stmt)]
        ELSE IF fault = "exec" THEN [o EXCEPT !.err = ErrExec, !.issued = 1]
        ELSE IF r.err # Nil THEN [o EXCEPT !.err = r.err, !.issued = 1]
        ELSE IF fault = "decode"
        THEN [o EXCEPT !.affected = junk, !.err = ErrResult, !.issued = 1, !.tbl = r.tbl]
        ELSE [o EXCEPT !.affected = r.affected, !.issued = 1, !.tbl = r.tbl]

Delete(w, fault, tbl, last) ==
    LET stmt == [kind |-> "delete", set |-> NoSet, cols |-> {}, where |-> w, suffix |-> ""]
        o == Outcome(stmt, tbl, last)
    IN  IF ToSql(stmt) # Nil THEN [o EXCEPT !.err = ToSql(stmt)]
        ELSE IF fault = "exec" THEN [o EXCEPT !.err = ErrExec, !.issued = 1]
        ELSE [o EXCEPT !.issued = 1, !.tbl = DbDelete(tbl, w)]

\* The row SELECT 1 as X ... returns for each row the predicate matches.
ExistsRows(tbl, w) == [i \in 1..Len(DbQuery(tbl, w)) |-> [ZeroRec EXCEPT !.id = 1]]

\* Exists without the sql.ErrNoRows case.
ExistsNoRowsIsError(w, fault, tbl, last) ==
    LET stmt == [kind |-> "select", set |-> NoSet, cols |-> {"1 as X"}, where |-> w, suffix |-> ""]
        o == Outcome(stmt, tbl, last)
        q == QueryRow(ExistsRows(tbl, w), fault)
    IN  IF ToSql(stmt) # Nil THEN [o EXCEPT !.err = ToSql(stmt)]
        ELSE IF q.err # Nil THEN [o EXCEPT !.err = q.err, !.issued = 1]
        ELSE [o EXCEPT !.ok = (q.row.id = 1), !.issued = 1]

Exists(w, fault, tbl, last) ==
    LET stmt == [kind |-> "select", set |-> NoSet, cols |-> {"1 as X"}, where |-> w, suffix |-> ""]
        o == Outcome(stmt, tbl, last)
        q == QueryRow(ExistsRows(tbl, w), fault)
    IN  IF ToSql(stmt) # Nil THEN [o EXCEPT !.err = ToSql(stmt)]
        ELSE IF q.err # Nil
        THEN IF q.err = ErrNoRows
             THEN [o EXCEPT !.issued = 1]
             ELSE [o EXCEPT !.err = q.err, !.issued = 1]
        ELSE [o EXCEPT !.ok = (q.row.id = 1), !.issued = 1]

\* helpers.go: the same calls with the predicate sq.Eq{"id": id}.
SelectRowByID(id, fault, RT, tbl, last) == SelectRow(EqId(id), fault, RT, tbl, last)
DeleteByID(id, fault, tbl, last) == Delete(EqId(id), fault, tbl, last)
UpdateByID(id, a, fault, junk, RT, tbl, last) == Update(a, EqId(id), fault, junk, RT, tbl, last)
ExistsByID(id, fault, tbl, last) == Exists(EqId(id), fault, tbl, last)

-----------------------------------------------------------------------------
(* Select and the row iterator it returns.                                 *)

VARIABLES
    pc,         \* where the caller of Select / the iterator function stands
    sel,        \* what Select returned: the statement, the error, the sequence
    cur,        \* the result cursor (sqlx.Rows) of the query
    yielded,    \* the pairs the sequence has yielded so far, in order
    stopped     \* the consumer returned false from a yield (stopped pulling)

\* The i-th row a cursor delivers; every column is non-zero.
RowAt(i) == [id |-> i, name |-> "a"]

\* What a query can deliver: rows, each decodable (bad = 0) or failing to
\* decode at column Cols[bad], and whether the stream ends in an error.
CursorRows == UNION {[1..n -> 0..Len(Cols)] : n \in 0..MaxRows}
QueryResults == [bads : CursorRows, termErr : BOOLEAN]
RowsOf(res) == [i \in 1..Len(res.bads) |-> [rec |-> RowAt(i), bad |-> res.bads[i]]]

NoCursor == [rows |-> <<>>, termErr |-> FALSE, pos |-> 0, open |-> FALSE, closeCalls |-> 0]

ColIndex(c) == CHOOSE i \in 1..Len(Cols) : Cols[i] = c

\* rows.StructScan(&t) into a fresh t: the columns are assigned in order,
\* so a failure at one column leaves the earlier ones assigned in t.
StructScan(row) ==
    IF row.bad = 0 THEN [rec |-> row.rec, err |-> Nil]
    ELSE [rec |-> [c \in ColSet |-> IF ColIndex(c) < row.bad THEN row.rec[c] ELSE Zero(c)],
          err |-> ErrScan]

\* rows.Close().
Close(c) == [c EXCEPT !.open = FALSE, !.closeCalls = @ + 1]

\* Select handing out a sequence although the query failed.
SelectSeqOnError(w, fault, res, RT) ==
    LET stmt == [kind |-> "select", set |-> NoSet, cols |-> Tags(RT), where |-> w, suffix |-> ""]
    IN  IF ToSql(stmt) # Nil
        THEN [stmt |-> stmt, err |-> ToSql(stmt), seq |-> FALSE, issued |-> 0, cur |-> NoCursor]
        ELSE [stmt |-> stmt, err |-> IF fault = "exec" THEN ErrExec ELSE Nil,
              seq |-> TRUE, issued |-> 1,
              cur |-> [rows |-> RowsOf(res), termErr |-> res.termErr, pos |-> 0,
                       open |-> TRUE, closeCalls |-> 0]]

\* Select up to its return: build, query, wrap the cursor.
Select(w, fault, res, RT) ==
    LET stmt == [kind |-> "select", set |-> NoSet, cols |-> Tags(RT), where |-> w, suffix |-> ""]
    IN  IF ToSql(stmt) # Nil
        THEN [stmt |-> stmt, err |-> ToSql(stmt), seq |-> FALSE, issued |-> 0, cur |-> NoCursor]
        ELSE IF fault = "exec"
        THEN [stmt |-> stmt, err |-> ErrExec, seq |-> FALSE, issued |-> 1, cur |-> NoCursor]
        ELSE [stmt |-> stmt, err |-> Nil, seq |-> TRUE, issued |-> 1,
              cur |-> [rows |-> RowsOf(res), termErr |-> res.termErr, pos |-> 0,
                       open |-> TRUE, closeCalls |-> 0]]

\* RowsNext reading one row ahead: it skips to the second next row when
\* there is one.
RowsNextAhead(c) ==
    IF c.open /\ c.pos + 1 < Len(c.rows)
    THEN [ok |-> TRUE, cur |-> [c EXCEPT !.pos = @ + 2]]
    ELSE IF c.open /\ c.pos < Len(c.rows)
    THEN [ok |-> TRUE, cur |-> [c EXCEPT !.pos = @ + 1]]
    ELSE [ok |-> FALSE, cur |-> c]

\* for rows.Next(): advance the cursor by one row if there is one.
RowsNext(c) ==
    IF c.open /\ c.pos < Len(c.rows)
    THEN [ok |-> TRUE, cur |-> [c EXCEPT !.pos = @ + 1]]
    ELSE [ok |-> FALSE, cur |-> c]

\* ScanAndYield dropping the decode error.
ScanAndYieldNoErr(c) == [rec |-> c.rows[c.pos].rec, err |-> Nil]

\* The loop body of the iterator function: decode the current row and
\* yield the pair.
ScanAndYield(c) == StructScan(c.rows[c.pos])

\* AfterYield without the defer: only falling off the end closes.
AfterYieldNoDefer(c, more) ==
    IF more THEN [pc |-> "next", cur |-> c]
    ELSE [pc |-> "done", cur |-> c]

\* After yield returns inside the loop: go on, or return, which runs the
\* deferred rows.Close().
AfterYield(c, more) ==
    IF more THEN [pc |-> "next", cur |-> c]
    ELSE [pc |-> "done", cur |-> Close(c)]

\* AfterLoop without the rows.Err() check.
AfterLoopNoErr(c) == [pc |-> "done", cur |-> Close(c), pairs |-> <<>>]

\* After the loop: rows.Err(), one more pair if it is not nil.
AfterLoop(c) ==
    IF c.termErr
    THEN [pc |-> "lastBody", cur |-> c, pairs |-> <<[rec |-> ZeroRec, err |-> ErrRows]>>]
    ELSE [pc |-> "done", cur |-> Close(c), pairs |-> <<>>]

-----------------------------------------------------------------------------
(* Collect2.                                                               *)

VARIABLES
    cseq,       \* the sequence handed to Collect2
    cidx,       \* the number of pairs Collect2 has pulled
    cres,       \* the slice res
    cret,       \* what Collect2 returned
    cpc         \* "range": about to pull; "body": in the loop body; "done"

PairRecs == {RowAt(1), RowAt(2)}
PairErrs == {Nil, ErrScan, ErrRows}
Pairs == [rec : PairRecs, err : PairErrs]
PairSeqs == UNION {[1..n -> Pairs] : n \in 0..MaxSeq}

NoRet == [res |-> <<>>, err |-> "none"]

\* Collect2Body returning what was collected before the error.
Collect2BodyPartial(res, pair) ==
    IF pair.err # Nil
    THEN [done |-> TRUE, res |-> res, ret |-> [res |-> res, err |-> pair.err]]
    ELSE [done |-> FALSE, res |-> Append(res, pair.rec), ret |-> NoRet]

\* The loop body of Collect2 for one pair.
Collect2Body(res, pair) ==
    IF pair.err # Nil
    THEN [done |-> TRUE, res |-> res, ret |-> [res |-> <<>>, err |-> pair.err]]
    ELSE [done |-> FALSE, res |-> Append(res, pair.rec), ret |-> NoRet]

\* The return after the loop.
Collect2End(res) == [res |-> res, err |-> Nil]

vars == <<T, table, lastRowid, call, pc, sel, cur, yielded, stopped,
          cseq, cidx, cres, cret, cpc>>
dbVars == <<T, table, lastRowid, call>>
iterVars == <<pc, sel, cur, yielded, stopped>>
collectVars == <<cseq, cidx, cres, cret, cpc>>

-----------------------------------------------------------------------------
(* Initial states.                                                         *)

EmptyTable == [k \in {} |-> ZeroRec]
NoCall == [op |-> "none", a |-> ZeroRec, w |-> NoWhere, fault |-> "none",
           out |-> Outcome(NoStmt, EmptyTable, 0), pre |-> EmptyTable, preLast |-> 0]
NoSel == [w |-> NoWhere, fault |-> "none", stmt |-> NoStmt, err |-> "none",
          seq |-> FALSE, issued |-> 0]

InitDb == T \in RecordTypes /\ table = EmptyTable /\ lastRowid = 0 /\ call = NoCall
InitIter == pc = "idle" /\ sel = NoSel /\ cur = NoCursor /\ yielded = <<>> /\ stopped = FALSE
InitCollect == cseq = <<>> /\ cidx = 0 /\ cres = <<>> /\ cret = NoRet /\ cpc = "done"

Init == InitDb /\ InitIter /\ InitCollect

-----------------------------------------------------------------------------
(* The calls on the connection, one action per call.                       *)

\* Record the call and let the database take its effect.  Rows stay within
\* the ids of the model.
Called(op, a, w, fault, o) ==
    /\ DOMAIN o.tbl \subseteq Ids
    /\ call' = [op |-> op, a |-> a, w |-> w, fault |-> fault, out |-> o,
                pre |-> table, preLast |-> lastRowid]
    /\ table' = o.tbl
    /\ lastRowid' = o.last
    /\ UNCHANGED <<T, iterVars, collectVars>>

JunkFor(fault) == IF fault = "decode" THEN DriverErrVals ELSE {0}

CallInsert ==
    \E a \in Records, fault \in Faults : \E junk \in JunkFor(fault) :
        Called("Insert", a, NoWhere, fault, Insert(a, fault, junk, T, table, lastRowid))

CallInsertPSQL ==
    \E a \in Records, fault \in Faults :
        Called("InsertPSQL", a, NoWhere, fault, InsertPSQL("id", a, fault, T, table, lastRowid))

CallSelectRow ==
    \E w \in Wheres, fault \in Faults :
        Called("SelectRow", ZeroRec, w, fault, SelectRow(w, fault, T, table, lastRowid))

CallUpdate ==
    \E a \in Records, w \in Wheres, fault \in Faults : \E junk \in JunkFor(fault) :
        Called("Update", a, w, fault, Update(a, w, fault, junk, T, table, lastRowid))

CallDelete ==
    \E w \in Wheres, fault \in {"none", "exec"} :
        Called("Delete", ZeroRec, w, fault, Delete(w, fault, table, lastRowid))

CallExists ==
    \E w \in Wheres, fault \in Faults :
        Called("Exists", ZeroRec, w, fault, Exists(w, fault, table, lastRowid))

\* Select up to its return; the sequence it returns is driven in SpecIter.
CallSelect ==
    \E w \in Wheres, fault \in {"none", "exec"} :
        LET res == [bads |-> [i \in 1..Len(DbQuery(table, w)) |-> 0], termErr |-> FALSE]
            s == Select(w, fault, res, T)
        IN  Called("Select", ZeroRec, w, fault,
                   [Outcome(s.stmt, table, lastRowid) EXCEPT
                        !.err = s.err, !.seq = s.seq, !.issued = s.issued])

Next ==
    \/ CallInsert
    \/ CallInsertPSQL
    \/ CallSelectRow
    \/ CallUpdate
    \/ CallDelete
    \/ CallExists
    \/ CallSelect

Spec == Init /\ [][Next]_vars

-----------------------------------------------------------------------------
(* The row iterator: Select, then the consumer driving the sequence.       *)

\* Select(ctx, db, table, where).
IterSelect ==
    /\ pc = "idle"
    /\ \E w \in {EqId(1), BadWhere}, fault \in {"none", "exec"}, res \in QueryResults :
        LET s == Select(w, fault, res, T)
        IN  /\ s.seq \/ res = [bads |-> <<>>, termErr |-> FALSE]
            /\ sel' = [w |-> w, fault |-> fault, stmt |-> s.stmt, err |-> s.err,
                        seq |-> s.seq, issued |-> s.issued]
            /\ cur' = s.cur
    /\ pc' = "returned"
    /\ UNCHANGED <<yielded, stopped, dbVars, collectVars>>

\* The consumer ranges over the sequence: the iterator function starts.
IterDrive ==
    /\ pc = "returned"
    /\ sel.seq
    /\ pc' = "next"
    /\ UNCHANGED <<sel, cur, yielded, stopped, dbVars, collectVars>>

\* for rows.Next()
IterNext ==
    /\ pc = "next"
    /\ cur' = RowsNext(cur).cur
    /\ pc' = IF RowsNext(cur).ok THEN "scan" ELSE "rowsErr"
    /\ UNCHANGED <<sel, yielded, stopped, dbVars, collectVars>>

\* rows.StructScan(&t); yield(t, err)
IterScanYield ==
    /\ pc = "scan"
    /\ yielded' = Append(yielded, ScanAndYield(cur))
    /\ pc' = "body"
    /\ UNCHANGED <<sel, cur, stopped, dbVars, collectVars>>

\* The consumer's loop body ends: it asks for the next pair, or stops.
IterBody ==
    /\ pc = "body"
    /\ \E more \in BOOLEAN :
        /\ pc' = AfterYield(cur, more).pc
        /\ cur' = AfterYield(cur, more).cur
        /\ stopped' = ~more
    /\ UNCHANGED <<sel, yielded, dbVars, collectVars>>

\* rows.Err() after the loop
IterRowsErr ==
    /\ pc = "rowsErr"
    /\ pc' = AfterLoop(cur).pc
    /\ cur' = AfterLoop(cur).cur
    /\ yielded' = yielded \o AfterLoop(cur).pairs
    /\ UNCHANGED <<sel, stopped, dbVars, collectVars>>

\* The consumer's loop body for the final pair ends; the iterator function
\* returns whatever yield returned.
IterLastBody ==
    /\ pc = "lastBody"
    /\ pc' = "done"
    /\ cur' = Close(cur)
    /\ UNCHANGED <<sel, yielded, stopped, dbVars, collectVars>>

NextIter ==
    \/ IterSelect
    \/ IterDrive
    \/ IterNext
    \/ IterScanYield
    \/ IterBody
    \/ IterRowsErr
    \/ IterLastBody

SpecIter == Init /\ [][NextIter]_vars

-----------------------------------------------------------------------------
(* Collect2 over any sequence of pairs.                                    *)

InitCollect2 ==
    /\ InitDb /\ InitIter
    /\ cseq \in PairSeqs
    /\ cidx = 0 /\ cres = <<>> /\ cret = NoRet /\ cpc = "range"

\* for t, err := range seq: the next pair is pulled
CollectPull ==
    /\ cpc = "range"
    /\ cidx < Len(cseq)
    /\ cidx' = cidx + 1
    /\ cpc' = "body"
    /\ UNCHANGED <<cseq, cres, cret, dbVars, iterVars>>

CollectBody ==
    /\ cpc = "body"
    /\ LET b == Collect2Body(cres, cseq[cidx])
       IN  /\ cres' = b.res
           /\ cret' = b.ret
           /\ cpc' = IF b.done THEN "done" ELSE "range"
    /\ UNCHANGED <<cseq, cidx, dbVars, iterVars>>

\* The sequence is exhausted: return res, nil
CollectEnd ==
    /\ cpc = "range"
    /\ cidx = Len(cseq)
    /\ cret' = Collect2End(cres)
    /\ cpc' = "done"
    /\ UNCHANGED <<cseq, cidx, cres, dbVars, iterVars>>

NextCollect ==
    \/ CollectPull
    \/ CollectBody
    \/ CollectEnd

SpecCollect == InitCollect2 /\ [][NextCollect]_vars

-----------------------------------------------------------------------------
(* Properties of the row iterator (SpecIter).                              *)

\* The pair the sequence yields for row k when the row decodes.
OkPair(k) == [rec |-> cur.rows[k].rec, err |-> Nil]
TermPair == [rec |-> ZeroRec, err |-> ErrRows]
TermCount == IF cur.termErr THEN 1 ELSE 0

\* C1: once the iteration of a sequence Select produced has ended (rows
\* exhausted, consumer stopped early, decode error, terminal error), the
\* cursor is closed, and rows.Close() has run exactly once; it never runs
\* twice.
C1_CursorClosedOnce ==
    /\ cur.closeCalls <= 1
    /\ cur.open <=> (sel.seq /\ cur.closeCalls = 0)
    /\ pc = "done" => (~cur.open /\ cur.closeCalls = 1)

\* C1 witness: the consumer stopped after the first of three rows.
C1_Witness ==
    /\ pc = "done" /\ stopped
    /\ Len(cur.rows) = 3 /\ Len(yielded) = 1 /\ ~cur.open

\* C3 as claimed: a row that fails to decode is yielded as the zero-value
\* record with the decode error, at its position, after the rows before it
\* and without ending the sequence.
C3_Original ==
    /\ \A k \in 1..Len(yielded) :
        k <= Len(cur.rows) =>
            yielded[k] = IF cur.rows[k].bad = 0 THEN OkPair(k)
                         ELSE [rec |-> ZeroRec, err |-> ErrScan]
    /\ (pc = "done" /\ ~stopped) => Len(yielded) = Len(cur.rows) + TermCount

\* C3 amended: a row that fails to decode is yielded with the decode error
\* at its position, the record holding the row's values in the columns
\* decoded before the failing one and zero values from it on; the rows
\* before it were yielded as decoded, and a consumer that keeps pulling
\* gets every later row (a 2-row result whose second row fails: one
\* record, then one error pair).
C3_DecodeErrorIsolated ==
    /\ \A k \in 1..Len(yielded) :
        k <= Len(cur.rows) =>
            IF cur.rows[k].bad = 0 THEN yielded[k] = OkPair(k)
            ELSE /\ yielded[k].err = ErrScan
                 /\ \A c \in ColSet :
                       yielded[k].rec[c] = IF ColIndex(c) < cur.rows[k].bad
                                           THEN cur.rows[k].rec[c] ELSE Zero(c)
    /\ pc = "body" => Len(yielded) = cur.pos
    /\ (pc = "done" /\ ~stopped) => Len(yielded) = Len(cur.rows) + TermCount

\* C3 witness: three rows, the second fails past its first column, the
\* consumer pulled to the end.
C3_Witness ==
    /\ pc = "done" /\ ~stopped
    /\ Len(cur.rows) = 3 /\ cur.rows[1].bad = 0 /\ cur.rows[2].bad = 2 /\ cur.rows[3].bad = 0
    /\ Len(yielded) >= 3 /\ yielded[2].err = ErrScan /\ yielded[3] = OkPair(3)

\* C4: driven to the end, a sequence whose cursor reports a terminal error
\* yields one last pair (zero-value record, terminal error) after the row
\* pairs and ends; without a terminal error nothing follows the last row.
C4_TerminalError ==
    /\ (pc = "done" /\ ~stopped) =>
        /\ Len(yielded) = Len(cur.rows) + TermCount
        /\ \A k \in 1..Len(yielded) :
              (yielded[k].err = ErrRows) <=> (cur.termErr /\ k = Len(yielded))
        /\ cur.termErr => yielded[Len(yielded)] = TermPair
    /\ pc = "lastBody" => (cur.termErr /\ yielded[Len(yielded)] = TermPair)

\* C4 witness: two rows, then the terminal error pair, then the end.
C4_Witness ==
    /\ pc = "done" /\ ~stopped /\ cur.termErr
    /\ Len(cur.rows) = 2 /\ Len(yielded) = 3 /\ yielded[3] = TermPair

\* C5: when building or issuing the query fails, Select returns that error
\* and no sequence; nothing is ever yielded and no cursor is open.
C5_QueryErrorNoSequence ==
    pc # "idle" =>
        /\ ~WhereOk(sel.w) => sel.err = ErrBuild
        /\ (WhereOk(sel.w) /\ sel.fault = "exec") => sel.err = ErrExec
        /\ (WhereOk(sel.w) /\ sel.fault = "none") => sel.err = Nil
        /\ sel.err # Nil =>
            (~sel.seq /\ pc = "returned" /\ yielded = <<>> /\ cur = NoCursor /\ ~cur.open)

\* C5 witness: the query failed.
C5_Witness == pc = "returned" /\ sel.err = ErrExec /\ sel.issued = 1 /\ ~sel.seq

\* The pairs the consumer has asked for so far: one when it starts to
\* range over the sequence, one each time its loop body ends without
\* stopping.  While the iterator function runs, the last of them is not
\* yet answered.
Requested ==
    IF pc \in {"idle", "returned"} THEN 0
    ELSE IF pc \in {"next", "scan", "rowsErr"} THEN Len(yielded) + 1
    ELSE IF pc = "done" /\ ~stopped /\ ~cur.termErr THEN Len(yielded) + 1
    ELSE Len(yielded)

\* In every state: the records yielded without an error are the cursor's
\* rows, at their positions; the cursor has advanced no further than the
\* pairs asked for, and never more than one row past the pairs yielded;
\* while the consumer holds a row's pair the cursor stands on that row; a
\* consumer that stopped has ended the iteration, with no terminal pair.
LazyInOrder ==
    /\ \A k \in 1..Len(yielded) :
          yielded[k].err = Nil => (k <= Len(cur.rows) /\ yielded[k].rec = cur.rows[k].rec)
    /\ cur.pos <= Requested
    /\ cur.pos <= Len(yielded) + 1
    /\ pc = "body" => cur.pos = Len(yielded)
    /\ stopped =>
          /\ pc = "done" /\ cur.pos = Len(yielded)
          /\ \A k \in 1..Len(yielded) : yielded[k].err # ErrRows

\* In every step: once the consumer has stopped, the cursor does not move
\* and nothing more is yielded.
StoppedStaysPut == stopped => (cur.pos' = cur.pos /\ yielded' = yielded /\ stopped')

\* C12: a sequence Select produced is lazy and keeps the order: records
\* that decode are yielded in the cursor's row order, the cursor advances
\* at most once per pair the consumer asks for and is never more than one
\* row ahead, and once the consumer stops the cursor is not advanced again
\* and no further pair, the terminal-error pair included, is yielded.
C12_LazyInOrder == [] LazyInOrder /\ [][StoppedStaysPut]_vars

\* C12 witness: the consumer took two of three rows in order and stopped;
\* the cursor stands on the second row and its terminal error is never
\* yielded.
C12_Witness ==
    /\ pc = "done" /\ stopped /\ cur.termErr
    /\ Len(cur.rows) = 3 /\ cur.pos = 2
    /\ yielded = <<OkPair(1), OkPair(2)>>

-----------------------------------------------------------------------------
(* Properties of Collect2 (SpecCollect).                                   *)

ErrPositions == {i \in 1..Len(cseq) : cseq[i].err # Nil}
FirstErr == CHOOSE i \in ErrPositions : \A j \in ErrPositions : i <= j

\* C6: Collect2 returns the records in order and nil when no pair carries
\* an error; otherwise nil and the first error, having pulled no pair
\* after it.
C6_Collect2 ==
    cpc = "done" =>
        IF ErrPositions = {}
        THEN /\ cret = [res |-> [i \in 1..Len(cseq) |-> cseq[i].rec], err |-> Nil]
             /\ cidx = Len(cseq)
        ELSE /\ cret = [res |-> <<>>, err |-> cseq[FirstErr].err]
             /\ cidx = FirstErr

\* C6 witness: a record, then an error, then another pair that is never
\* pulled.
C6_Witness ==
    /\ cpc = "done" /\ Len(cseq) = 3
    /\ cseq[1].err = Nil /\ cseq[2].err = ErrScan /\ cseq[3].err = ErrRows
    /\ cidx = 2 /\ cret.err = ErrScan

-----------------------------------------------------------------------------
(* Properties of the calls on the connection (Spec).                       *)

\* The predicate of the last call matched a row of the table it ran on.
Matched == WhereOk(call.w) /\ call.w.val \in DOMAIN call.pre
\* The column c of the record of the last call is omit-if-empty and zero.
EmptyOmit(c) == c \in T /\ call.a[c] = Zero(c)

\* C2: Exists returns (false, nil) when no row matches, (true, nil) when
\* a row is returned, and (false, the error) for any other execution or
\* decode error.
C2_Exists ==
    (call.op = "Exists" /\ WhereOk(call.w)) =>
        /\ call.fault = "exec" => (~call.out.ok /\ call.out.err = ErrExec)
        /\ (call.fault # "exec" /\ ~Matched) => (~call.out.ok /\ call.out.err = Nil)
        /\ (call.fault = "none" /\ Matched) => (call.out.ok /\ call.out.err = Nil)
        /\ (call.fault = "decode" /\ Matched) => (~call.out.ok /\ call.out.err = ErrScan)
        /\ table = call.pre

\* C2 witness: the query fails (as against a table that does not exist)
\* although the table has a row with the id asked for.
C2_Witness ==
    /\ call.op = "Exists" /\ call.fault = "exec" /\ Matched
    /\ ~call.out.ok /\ call.out.err = ErrExec

\* C7: SelectRow returns (nil, error) when no row matches, the query fails
\* or the row does not decode, the no-rows error being sql.ErrNoRows and
\* no other failure; it returns a record and nil only for a row returned
\* and decoded.  On the same table Exists takes no rows for (false, nil).
C7_SelectRow ==
    call.op = "SelectRow" =>
        /\ call.out.ptr <=> call.out.err = Nil
        /\ call.out.ptr <=> (Matched /\ call.fault = "none")
        /\ call.out.ptr => call.out.rec = call.pre[call.w.val]
        /\ ~WhereOk(call.w) => call.out.err = ErrBuild
        /\ (WhereOk(call.w) /\ call.fault = "exec") => call.out.err = ErrExec
        /\ (Matched /\ call.fault = "decode") => call.out.err = ErrScan
        /\ call.out.err = ErrNoRows <=> (WhereOk(call.w) /\ ~Matched /\ call.fault # "exec")
        /\ call.out.err = ErrNoRows =>
              LET e == Exists(call.w, "none", table, lastRowid)
              IN  ~e.ok /\ e.err = Nil

\* C7 witness: no row has the id asked for, in a table that has a row.
C7_Witness ==
    /\ call.op = "SelectRow" /\ call.fault = "none" /\ table # EmptyTable
    /\ ~call.out.ptr /\ call.out.err = ErrNoRows

\* What SelectRowByID and ExistsByID return on the table as it is now.
NowRow(i) == SelectRowByID(i, "none", T, table, lastRowid)
NowExists(i) == ExistsByID(i, "none", table, lastRowid)

\* After Delete where id = i, Exists(id = i) is false.
DeleteThenExists ==
    (call.op = "Delete" /\ call.out.err = Nil) =>
        (~NowExists(call.w.val).ok /\ NowExists(call.w.val).err = Nil)

\* After an Insert that added a row and returned its id i, SelectRow by
\* id = i returns the inserted record, its id column being i.
InsertThenSelect ==
    (call.op = "Insert" /\ call.out.err = Nil /\ call.out.inserted) =>
        /\ NowRow(call.out.id).err = Nil
        /\ NowRow(call.out.id).rec = [call.a EXCEPT !.id = call.out.id]

\* The id of the row Update wrote: the id it bound, or else the id of the
\* predicate.
UpdatedKey == IF EmptyOmit("id") THEN call.w.val ELSE call.a.id

Built == call.out.err # ErrBuild

\* C9 as claimed: the INSERT of InsertPSQL never lists the id column or
\* binds its value.
C9_Original ==
    (call.op = "InsertPSQL" /\ Built) => "id" \notin DOMAIN call.out.stmt.set

\* C9 amended: the INSERT of InsertPSQL lists the id column and binds the
\* record's id like any other column, leaving it out only as an
\* omit-if-empty field that is zero; the id returned is the one read back
\* from RETURNING id, the key of the row the statement inserted.
C9_InsertPSQLBindsId ==
    (call.op = "InsertPSQL" /\ Built) =>
        /\ "id" \in DOMAIN call.out.stmt.set <=> ~EmptyOmit("id")
        /\ "id" \in DOMAIN call.out.stmt.set => call.out.stmt.set["id"] = call.a.id
        /\ call.out.stmt.suffix = "ON CONFLICT DO NOTHING RETURNING id"
        /\ call.out.err = Nil =>
              /\ call.out.inserted
              /\ call.out.id \in DOMAIN table \ DOMAIN call.pre
              /\ ~EmptyOmit("id") => call.out.id = call.a.id

\* C9 witness: InsertPSQL of a record with id 1 binds id = 1 and returns 1.
C9_Witness ==
    /\ call.op = "InsertPSQL" /\ call.a.id = 1 /\ call.out.err = Nil
    /\ "id" \in DOMAIN call.out.stmt.set /\ call.out.id = 1

\* C10: the statement of Insert, InsertPSQL and Update binds every declared
\* column except the omit-if-empty fields that are zero; SelectRow and
\* Select ask for every declared column whatever the field values.
C10_Columns ==
    /\ (call.op \in {"Insert", "InsertPSQL", "Update"}) =>
          DOMAIN call.out.stmt.set = {c \in ColSet : ~EmptyOmit(c)}
    /\ (call.op \in {"Insert", "InsertPSQL", "Update"}) =>
          \A c \in DOMAIN call.out.stmt.set : call.out.stmt.set[c] = call.a[c]
    /\ (call.op \in {"SelectRow", "Select"}) => call.out.stmt.cols = ColSet

\* C10 witness: an Insert whose record has an empty omit-if-empty name and
\* an id that is not omit-if-empty.
C10_Witness ==
    /\ call.op = "Insert" /\ T = {"name"} /\ call.a.name = "" /\ call.out.err = Nil
    /\ DOMAIN call.out.stmt.set = {"id"}

\* The execution of the statement of the last call fails: the connection
\* reports an error, or the database rejects a statement without columns.
ExecFails == call.fault = "exec" \/ \A c \in ColSet : EmptyOmit(c)

\* C11: Insert returns a non-nil error and the id 0 when the execution of
\* the statement fails and when it succeeds but the driver cannot report
\* the last-inserted id; it returns the driver's last-inserted id with a
\* nil error only when both steps succeed.
C11_Original ==
    call.op = "Insert" =>
        /\ ExecFails => (call.out.err = ErrExec /\ call.out.id = 0)
        /\ (~ExecFails /\ call.fault = "decode") =>
              (call.out.err = ErrResult /\ call.out.id = 0)
        /\ (~ExecFails /\ call.fault = "none") =>
              (call.out.err = Nil /\ call.out.id = lastRowid)
        /\ call.out.err = Nil => (~ExecFails /\ call.fault = "none")

\* The predicate of the last call does not serialize.
PredicateFails ==
    call.op \in {"SelectRow", "Select", "Update", "Delete", "Exists"} /\ ~WhereOk(call.w)
\* The column/value list of the last call, a write, is empty.
EmptyWrite(ops) == call.op \in ops /\ \A c \in ColSet : EmptyOmit(c)

\* C13: for every operation, when the statement cannot be built (the
\* predicate does not serialize, or the column/value list of a write is
\* empty) the operation returns the build error and issues no execute or
\* query call on the connection; in every case one call issues at most one
\* statement.
C13_Original ==
    call.op # "none" =>
        /\ (PredicateFails \/ EmptyWrite({"Insert", "InsertPSQL", "Update"})) =>
              (call.out.err = ErrBuild /\ call.out.issued = 0)
        /\ call.out.issued <= 1

\* What holds of the calls as they are: a predicate that does not
\* serialize and an Update without a column are build errors, returned
\* with no statement issued and the table untouched; nothing else is a
\* build error; no call issues more than one statement.  An Insert or
\* InsertPSQL without a column issues its statement and returns the
\* error of the database.
BuildErrorNoStatement ==
    call.op # "none" =>
        /\ (PredicateFails \/ EmptyWrite({"Update"})) <=> call.out.err = ErrBuild
        /\ call.out.err = ErrBuild =>
              (call.out.issued = 0 /\ table = call.pre /\ lastRowid = call.preLast)
        /\ EmptyWrite({"Insert", "InsertPSQL"}) =>
              (call.out.issued = 1 /\ call.out.err = ErrExec /\ table = call.pre)
        /\ call.out.issued <= 1

====
